---- MODULE Spec2Model ----
(***************************************************************************)
(* A model of src/cache.py: a set-associative cache with counter-based LRU *)
(* replacement (CacheLine, CacheSet, Cache) and the trace replay loop      *)
(* simulate_cache.  Python lists are functions over 0..n-1, Python strings *)
(* are sequences of one-character strings, and Python's unbounded integers *)
(* that can exceed 31 bits (the parsed addresses) are sign/magnitude bit   *)
(* sequences.  A raised exception ends the call it escapes from.           *)
(***************************************************************************)
EXTENDS Integers, Sequences, FiniteSets, TLC

VARIABLES
    pc,          \* position in simulate_cache: "start", "loop", "returned", "raised"
    run,         \* which call of simulate_cache on the same file and arguments (1 or 2)
    args,        \* the arguments (cache_size_kb, block_size, associativity)
    cache,       \* the fields of the Cache object, NoCache before construction
    cache_sets,  \* Cache.cache_sets: set number -> CacheSet
    hits,        \* local counter of simulate_cache
    misses,      \* local counter of simulate_cache
    trace,       \* the addresses of the trace file, as far as they have been read
    pos,         \* number of lines of the file consumed by the current call
    outcomes,    \* history: the outcome of each Cache.access of the current call
    inserts,     \* history: the (set, line, tag) of each CacheSet.replace of the current call
    last,        \* history: the most recent Cache.access call and what it decoded
    error,       \* the exception that escaped the current call, or "none"
    ret,         \* call number -> what that call of simulate_cache produced
    accesses,    \* history: the (set, tag, outcome) of each Cache.access of the current call
    report       \* what main derived from the result of the current call

vars == <<pc, run, args, cache, cache_sets, hits, misses, trace, pos,
          outcomes, inserts, last, error, ret, accesses, report>>

----------------------------------------------------------------------------
(* Bounds and inputs *)

MaxTrace == 4

None == -1

W == 32

Geometries ==
    { <<1, 512, 1>>,     \* 2 sets, direct mapped
      <<1, 256, 2>>,     \* 2 sets, 2-way
      <<1, 1024, 1>>,    \* 1 set, direct mapped
      <<1, 512, 2>>,     \* 1 set, 2-way (fully associative)
      <<1, 384, 1>>,     \* block size not a power of two
      <<1, 128, 3>>,     \* associativity does not divide the block count
      <<1, 2048, 1>>,    \* block larger than the cache: no set at all
      <<1, 0, 1>> }      \* zero block size

RECURSIVE NatBits(_)
\* the binary digits of a natural number, most significant first, <<>> for 0
NatBits(n) == IF n = 0 THEN <<>> ELSE Append(NatBits(n \div 2), n % 2)

Pos(n) == [neg |-> FALSE, mag |-> NatBits(n)]
NegOf(mag) == [neg |-> TRUE, mag |-> mag]
Rep(b, n) == [i \in 1..n |-> b]

Addresses ==
    { Pos(0), Pos(512), Pos(1024),
      [neg |-> FALSE, mag |-> Rep(1, 32)],            \* 0xFFFFFFFF
      [neg |-> FALSE, mag |-> <<1>> \o Rep(0, 32)],   \* 0x100000000
      NegOf(<<1>>),                                   \* -0x1
      NegOf(<<1>> \o Rep(0, 29)),                    \* -0x20000000
      NegOf(<<1>> \o Rep(0, 30)) }                   \* -0x40000000

----------------------------------------------------------------------------
(* Python built-ins used by the code *)

MinOf(S) == CHOOSE m \in S : \A x \in S : m <= x
MaxOf(S) == CHOOSE m \in S : \A x \in S : x <= m
Range(f) == {f[i] : i \in DOMAIN f}

\* int(math.log(n, 2)) for n >= 1: the float quotient truncated towards zero,
\* which for the sizes used here is the number of halvings that leave 1
RECURSIVE IntLog2(_)
IntLog2(n) == IF n <= 1 THEN 0 ELSE 1 + IntLog2(n \div 2)

\* bin(address): sign, "0b", then the digits ("0" for zero)
Digits(mag) ==
    IF mag = <<>> THEN <<"0">>
    ELSE [i \in 1..Len(mag) |-> IF mag[i] = 1 THEN "1" ELSE "0"]

bin(address) ==
    (IF address.neg THEN <<"-">> ELSE <<>>) \o <<"0", "b">> \o Digits(address.mag)

\* s[i:j] and s[i:] with Python's clamping of the two indices
SliceIndex(i, n) ==
    IF i < 0 THEN (IF i + n < 0 THEN 0 ELSE i + n)
    ELSE (IF i > n THEN n ELSE i)

Slice(s, i, j) == SubSeq(s, SliceIndex(i, Len(s)) + 1, SliceIndex(j, Len(s)))

SliceFrom(s, i) == SubSeq(s, SliceIndex(i, Len(s)) + 1, Len(s))

\* str.zfill(width): pad with "0" on the left, after a leading sign if any;
\* a string already that long is returned as it is
zfill(s, width) ==
    IF Len(s) >= width THEN s
    ELSE IF Len(s) > 0 /\ s[1] \in {"+", "-"}
         THEN <<s[1]>> \o Rep("0", width - Len(s)) \o SliceFrom(s, 1)
         ELSE Rep("0", width - Len(s)) \o s

AllBinaryDigits(s) == \A i \in 1..Len(s) : s[i] \in {"0", "1"}

\* the part of a base-2 literal that carries the digits: int(s, 2) accepts
\* an optional "0b" prefix in front of at least one digit
LiteralDigits(s) ==
    IF Len(s) >= 2 /\ s[1] = "0" /\ s[2] = "b" THEN SliceFrom(s, 2) ELSE s

\* int(s, 2) raises ValueError unless this holds
IsBase2Literal(s) ==
    /\ LiteralDigits(s) # <<>>
    /\ AllBinaryDigits(LiteralDigits(s))

RECURSIVE DigitsValue(_)
DigitsValue(s) ==
    IF s = <<>> THEN 0
    ELSE 2 * DigitsValue(SubSeq(s, 1, Len(s) - 1))
         + (IF s[Len(s)] = "1" THEN 1 ELSE 0)

\* int(s, 2) where it does not raise
IntBase2(s) == DigitsValue(LiteralDigits(s))

\* lines 65-66: the binary string handed to Cache.access for a parsed address
AddressString(address) == zfill(SliceFrom(bin(address), 2), W)

----------------------------------------------------------------------------
(* CacheLine and CacheSet *)

CacheLine == [valid |-> FALSE, tag |-> None]

CacheSet(associativity) ==
    [lines       |-> [i \in 0..(associativity - 1) |-> CacheLine],
     lru_counter |-> [i \in 0..(associativity - 1) |-> 0]]

\* a scan that forgets to compare the tag
HitIndexAnyValid(set, tag) ==
    LET H == {i \in DOMAIN set.lines : set.lines[i].valid}
    IN IF H = {} THEN None ELSE MinOf(H)

\* a scan that returns after looking at the first line only
HitIndexFirstOnly(set, tag) ==
    IF 0 \in DOMAIN set.lines /\ set.lines[0].valid /\ set.lines[0].tag = tag
    THEN 0 ELSE None

\* the line at which the scan of CacheSet.access returns True, None if it
\* runs to the end
HitIndex(set, tag) ==
    LET H == {i \in DOMAIN set.lines :
                 set.lines[i].valid /\ set.lines[i].tag = tag}
    IN IF H = {} THEN None ELSE MinOf(H)

\* an access that stamps the hit line with the maximum itself, not one more
SetAccessNoIncrement(set, tag) ==
    LET i == HitIndex(set, tag)
    IN IF i # None
       THEN [hit |-> TRUE,
             set |-> [set EXCEPT !.lru_counter[i] =
                                     MaxOf(Range(set.lru_counter))]]
       ELSE [hit |-> FALSE, set |-> set]

\* CacheSet.access: the returned boolean and the set afterwards
SetAccess(set, tag) ==
    LET i == HitIndex(set, tag)
    IN IF i # None
       THEN [hit |-> TRUE,
             set |-> [set EXCEPT !.lru_counter[i] =
                                     MaxOf(Range(set.lru_counter)) + 1]]
       ELSE [hit |-> FALSE, set |-> set]

\* a victim choice whose minimum is taken over lru_counter[1:]
LruIndexSkipFirst(lru_counter) ==
    LET rest == {lru_counter[i] : i \in DOMAIN lru_counter \ {0}}
    IN IF rest = {} THEN 0
       ELSE MinOf({i \in DOMAIN lru_counter : lru_counter[i] = MinOf(rest)})

\* lru_counter.index(min(lru_counter)): the first index holding the minimum
LruIndex(lru_counter) ==
    MinOf({i \in DOMAIN lru_counter :
              lru_counter[i] = MinOf(Range(lru_counter))})

\* a replace that fills the line but forgets to stamp its recency
SetReplaceNoStamp(set, tag) ==
    [set EXCEPT !.lines[LruIndex(set.lru_counter)] =
                    [valid |-> TRUE, tag |-> tag]]

\* a replace that stamps the line with the maximum itself, not one more
SetReplaceStampMax(set, tag) ==
    LET lru_index == LruIndex(set.lru_counter)
        filled == [set EXCEPT !.lines[lru_index] = [valid |-> TRUE, tag |-> tag]]
    IN [filled EXCEPT !.lru_counter[lru_index] =
                          MaxOf(Range(filled.lru_counter))]

\* CacheSet.replace: the set afterwards
SetReplace(set, tag) ==
    LET lru_index == LruIndex(set.lru_counter)
        filled == [set EXCEPT !.lines[lru_index] = [valid |-> TRUE, tag |-> tag]]
    IN [filled EXCEPT !.lru_counter[lru_index] =
                          MaxOf(Range(filled.lru_counter)) + 1]

----------------------------------------------------------------------------
(* Cache *)

NoCache == [constructed |-> FALSE]

\* the exception Cache.__init__ raises for these arguments, "none" if it
\* constructs: // by zero, then math.log of a number that is not positive
InitError(cache_size_kb, block_size, associativity) ==
    IF block_size = 0 THEN "ZeroDivisionError"
    ELSE IF associativity = 0 THEN "ZeroDivisionError"
    ELSE IF ((cache_size_kb * 1024) \div block_size) \div associativity <= 0
         THEN "ValueError"
    ELSE "none"

\* a constructor that forgets to divide the blocks among the ways
NewCacheFlat(cache_size_kb, block_size, associativity) ==
    LET cache_size == cache_size_kb * 1024
        num_blocks == cache_size \div block_size
        index_length == IntLog2(num_blocks)
        byte_offset_length == IntLog2(block_size)
    IN [constructed        |-> TRUE,
        cache_size         |-> cache_size,
        block_size         |-> block_size,
        associativity      |-> associativity,
        num_blocks         |-> num_blocks,
        num_sets           |-> num_blocks,
        index_length       |-> index_length,
        byte_offset_length |-> byte_offset_length,
        tag_length         |-> W - index_length - byte_offset_length]

\* the fields Cache.__init__ assigns
NewCache(cache_size_kb, block_size, associativity) ==
    LET cache_size == cache_size_kb * 1024
        num_blocks == cache_size \div block_size
        num_sets == num_blocks \div associativity
        index_length == IntLog2(num_sets)
        byte_offset_length == IntLog2(block_size)
    IN [constructed        |-> TRUE,
        cache_size         |-> cache_size,
        block_size         |-> block_size,
        associativity      |-> associativity,
        num_blocks         |-> num_blocks,
        num_sets           |-> num_sets,
        index_length       |-> index_length,
        byte_offset_length |-> byte_offset_length,
        tag_length         |-> W - index_length - byte_offset_length]

\* a constructor that hands out the sets of the previous Cache of that shape
NewCacheSetsKept(num_sets, associativity) ==
    IF DOMAIN cache_sets = 0..(num_sets - 1) /\ num_sets > 0
    THEN cache_sets
    ELSE [s \in 0..(num_sets - 1) |-> CacheSet(associativity)]

\* line 37: one fresh CacheSet per set
NewCacheSets(num_sets, associativity) ==
    [s \in 0..(num_sets - 1) |-> CacheSet(associativity)]

get_set_index(c, address) ==
    Slice(address, c.tag_length, c.tag_length + c.index_length)

get_tag(c, address) == Slice(address, 0, c.tag_length)

\* an access on a Cache whose sets are all one shared CacheSet object
\* ([CacheSet(associativity)] * num_sets): what one set gets, all get
CacheAccessShared(c, sets, address) ==
    LET set_index == get_set_index(c, address)
        tag_str == get_tag(c, address)
    IN IF ~IsBase2Literal(tag_str)
       THEN [outcome |-> "ValueError", tag |-> None, set |-> None,
             line |-> None, sets |-> sets]
       ELSE LET tag == IntBase2(tag_str)
            IN IF ~IsBase2Literal(set_index)
               THEN [outcome |-> "ValueError", tag |-> tag, set |-> None,
                     line |-> None, sets |-> sets]
               ELSE LET s == IntBase2(set_index)
                    IN IF s \notin DOMAIN sets
                       THEN [outcome |-> "IndexError", tag |-> tag, set |-> s,
                             line |-> None, sets |-> sets]
                       ELSE LET probe == SetAccess(sets[s], tag)
                            IN IF probe.hit
                               THEN [outcome |-> "hit", tag |-> tag, set |-> s,
                                     line |-> None,
                                     sets |-> [t \in DOMAIN sets |-> probe.set]]
                               ELSE [outcome |-> "miss", tag |-> tag, set |-> s,
                                     line |-> LruIndex(sets[s].lru_counter),
                                     sets |-> [t \in DOMAIN sets |->
                                                  SetReplace(sets[s], tag)]]

\* Cache.access on the binary string: what was decoded, the outcome ("hit",
\* "miss", or the exception raised) and the sets afterwards.  The tag is
\* converted first (line 48), then the set index (line 49).
CacheAccess(c, sets, address) ==
    LET set_index == get_set_index(c, address)
        tag_str == get_tag(c, address)
    IN IF ~IsBase2Literal(tag_str)
       THEN [outcome |-> "ValueError", tag |-> None, set |-> None,
             line |-> None, sets |-> sets]
       ELSE LET tag == IntBase2(tag_str)
            IN IF ~IsBase2Literal(set_index)
               THEN [outcome |-> "ValueError", tag |-> tag, set |-> None,
                     line |-> None, sets |-> sets]
               ELSE LET s == IntBase2(set_index)
                    IN IF s \notin DOMAIN sets
                       THEN [outcome |-> "IndexError", tag |-> tag, set |-> s,
                             line |-> None, sets |-> sets]
                       ELSE LET probe == SetAccess(sets[s], tag)
                            IN IF probe.hit
                               THEN [outcome |-> "hit", tag |-> tag, set |-> s,
                                     line |-> None,
                                     sets |-> [sets EXCEPT ![s] = probe.set]]
                               ELSE [outcome |-> "miss", tag |-> tag, set |-> s,
                                     line |-> LruIndex(sets[s].lru_counter),
                                     sets |-> [sets EXCEPT ![s] =
                                                  SetReplace(sets[s], tag)]]

----------------------------------------------------------------------------
(* simulate_cache, called twice on the same file with the same arguments *)

NoAccess == [address |-> Pos(0), outcome |-> "none", tag |-> None,
             set |-> None, line |-> None]

NoReturn == [status |-> "none", hits |-> 0, misses |-> 0, outcomes |-> <<>>]

NoReport == [status |-> "none", total_accesses |-> 0, hit_rate |-> <<0, 1>>]

Init ==
    /\ pc = "start"
    /\ run = 1
    /\ args \in Geometries
    /\ cache = NoCache
    /\ cache_sets = <<>>
    /\ hits = 0
    /\ misses = 0
    /\ trace = <<>>
    /\ pos = 0
    /\ outcomes = <<>>
    /\ inserts = <<>>
    /\ last = NoAccess
    /\ error = "none"
    /\ ret = [r \in 1..2 |-> NoReturn]
    /\ accesses = <<>>
    /\ report = NoReport

\* lines 58-62: construct the Cache, zero the counters, open the file
Construct ==
    /\ pc = "start"
    /\ LET e == InitError(args[1], args[2], args[3])
       IN IF e # "none"
          THEN /\ pc' = "raised"
               /\ error' = e
               /\ ret' = [ret EXCEPT ![run] =
                             [status |-> e, hits |-> 0, misses |-> 0,
                              outcomes |-> <<>>]]
               /\ UNCHANGED <<cache, cache_sets>>
          ELSE /\ pc' = "loop"
               /\ cache' = NewCache(args[1], args[2], args[3])
               /\ cache_sets' = NewCacheSets(cache'.num_sets, args[3])
               /\ UNCHANGED <<error, ret>>
    /\ hits' = 0
    /\ misses' = 0
    /\ UNCHANGED <<run, args, trace, pos, outcomes, inserts, last, accesses,
                   report>>

\* lines 63-70: one iteration of the loop over the lines of the file.  The
\* first call meets a line not seen before; the second call reads the same
\* file again.
Iterate(address) ==
    \E a \in {CacheAccess(cache, cache_sets, AddressString(address))} :
       /\ pos' = pos + 1
       /\ last' = [address |-> address, outcome |-> a.outcome, tag |-> a.tag,
                   set |-> a.set, line |-> a.line]
       /\ outcomes' = Append(outcomes, a.outcome)
       /\ accesses' = Append(accesses, [set |-> a.set, tag |-> a.tag,
                                        outcome |-> a.outcome])
       /\ cache_sets' = a.sets
       /\ inserts' = IF a.outcome = "miss"
                     THEN Append(inserts, [set |-> a.set, line |-> a.line,
                                           tag |-> a.tag])
                     ELSE inserts
       /\ IF a.outcome = "hit"
          THEN /\ hits' = hits + 1
               /\ UNCHANGED <<misses, pc, error, ret>>
          ELSE IF a.outcome = "miss"
          THEN /\ misses' = misses + 1
               /\ UNCHANGED <<hits, pc, error, ret>>
          ELSE /\ pc' = "raised"
               /\ error' = a.outcome
               /\ ret' = [ret EXCEPT ![run] =
                             [status |-> a.outcome, hits |-> hits,
                              misses |-> misses, outcomes |-> outcomes']]
               /\ UNCHANGED <<hits, misses>>
       /\ UNCHANGED <<run, args, cache, report>>

ReadLine ==
    /\ pc = "loop"
    /\ IF run = 1
       THEN /\ Len(trace) < MaxTrace
            /\ \E address \in Addresses :
                  /\ trace' = Append(trace, address)
                  /\ Iterate(address)
       ELSE /\ pos < Len(trace)
            /\ trace' = trace
            /\ Iterate(trace[pos + 1])

\* line 72: the file is exhausted
Return ==
    /\ pc = "loop"
    /\ run = 2 => pos = Len(trace)
    /\ pc' = "returned"
    /\ ret' = [ret EXCEPT ![run] =
                  [status |-> "returned", hits |-> hits, misses |-> misses,
                   outcomes |-> outcomes]]
    /\ UNCHANGED <<run, args, cache, cache_sets, hits, misses, trace, pos,
                   outcomes, inserts, last, error, accesses, report>>

\* main, lines 119-121 and 129-131: the hit rate of the result just returned,
\* (hits / total_accesses) * 100, kept as the fraction 100 * hits over
\* total_accesses; the division raises when total_accesses is 0
Report ==
    /\ pc = "returned"
    /\ report.status = "none"
    /\ LET total_accesses == ret[run].hits + ret[run].misses
       IN report' = IF total_accesses = 0
                    THEN [status |-> "ZeroDivisionError",
                          total_accesses |-> total_accesses,
                          hit_rate |-> <<0, 1>>]
                    ELSE [status |-> "printed",
                          total_accesses |-> total_accesses,
                          hit_rate |-> <<100 * ret[run].hits, total_accesses>>]
    /\ UNCHANGED <<pc, run, args, cache, cache_sets, hits, misses, trace, pos,
                   outcomes, inserts, last, error, ret, accesses>>

\* simulate_cache is called again with the same file and arguments (main,
\* lines 118 and 128), after the first result has been reported or an
\* exception has ended the first call.  The Cache of the finished call is unreachable from
\* the new call; cache and cache_sets keep describing it until line 58
\* constructs the next one.
CallAgain ==
    /\ \/ pc = "raised"
       \/ pc = "returned" /\ report.status # "none"
    /\ run = 1
    /\ run' = 2
    /\ pc' = "start"
    /\ hits' = 0
    /\ misses' = 0
    /\ pos' = 0
    /\ outcomes' = <<>>
    /\ inserts' = <<>>
    /\ last' = NoAccess
    /\ accesses' = <<>>
    /\ report' = NoReport
    /\ error' = "none"
    /\ UNCHANGED <<args, cache, cache_sets, trace, ret>>

Next == Construct \/ ReadLine \/ Return \/ Report \/ CallAgain

Spec == Init /\ [][Next]_vars

----------------------------------------------------------------------------
(* Vocabulary of the properties *)

\* an address the cache is specified for: an unsigned integer of W bits
InRange(address) == ~address.neg /\ Len(address.mag) <= W

IsPowerOfTwo(n) == \E k \in 0..30 : n = 2^k

\* a geometry the specification calls valid
ValidGeometry(g) ==
    LET capacity_bytes == g[1] * 1024
    IN /\ IsPowerOfTwo(capacity_bytes)
       /\ IsPowerOfTwo(g[2])
       /\ IsPowerOfTwo(g[3])
       /\ capacity_bytes % g[2] = 0
       /\ (capacity_bytes \div g[2]) % g[3] = 0
       /\ (capacity_bytes \div g[2]) \div g[3] >= 1
       /\ IntLog2((capacity_bytes \div g[2]) \div g[3]) + IntLog2(g[2]) <= W

\* the step is one iteration of the loop of simulate_cache
AccessStep == pos' = pos + 1

AllValid(set) == \A i \in DOMAIN set.lines : set.lines[i].valid

\* the least recently used line: smallest recency among the valid lines,
\* the lowest index among equals
LruVictim(set) ==
    CHOOSE i \in DOMAIN set.lines :
        /\ set.lines[i].valid
        /\ \A j \in DOMAIN set.lines :
              set.lines[j].valid =>
                  \/ set.lru_counter[i] < set.lru_counter[j]
                  \/ (set.lru_counter[i] = set.lru_counter[j] /\ i <= j)

\* how many insertions the current call has made into set s
InsertsInto(s) ==
    Cardinality({k \in 1..Len(inserts) : inserts[k].set = s})

\* address >> k and address & ((1 << k) - 1) on the binary digits
ShiftRight(mag, k) ==
    IF k >= Len(mag) THEN <<>> ELSE SubSeq(mag, 1, Len(mag) - k)

LowBits(mag, k) ==
    IF k >= Len(mag) THEN mag ELSE SubSeq(mag, Len(mag) - k + 1, Len(mag))

RECURSIVE BitsValue(_)
BitsValue(mag) ==
    IF mag = <<>> THEN 0
    ELSE 2 * BitsValue(SubSeq(mag, 1, Len(mag) - 1)) + mag[Len(mag)]

CountOf(seq, x) == Cardinality({k \in 1..Len(seq) : seq[k] = x})

----------------------------------------------------------------------------
(* Claims *)

\* C1: a miss in a set whose lines are all valid overwrites the line with the
\* smallest recency among the valid lines (lowest index on ties) with the new
\* tag, and keeps the valid flag and tag of every other line.
C1_MissEvictsLeastRecent ==
    [][(AccessStep /\ last'.outcome = "miss"
          /\ AllValid(cache_sets[last'.set]))
       => LET s == last'.set
              v == LruVictim(cache_sets[s])
          IN /\ last'.line = v
             /\ cache_sets'[s].lines[v] = [valid |-> TRUE, tag |-> last'.tag]
             /\ \A i \in DOMAIN cache_sets[s].lines :
                   i # v => cache_sets'[s].lines[i] = cache_sets[s].lines[i]]_vars

\* a miss in a full set of several lines evicted a line other than the one
\* filled first, because a hit had made that one the more recent
C1_Witness ==
    /\ last.outcome = "miss"
    /\ cache.associativity >= 2
    /\ InsertsInto(last.set) = cache.associativity + 1
    /\ CountOf(outcomes, "hit") >= 1
    /\ last.line # 0

\* C2: a miss in a set that still has an invalid line fills an invalid line
\* and leaves every valid line valid with its tag.
C2_InvalidLineFilledFirst ==
    [][(AccessStep /\ last'.outcome = "miss"
          /\ ~AllValid(cache_sets[last'.set]))
       => LET s == last'.set
          IN /\ ~cache_sets[s].lines[last'.line].valid
             /\ \A i \in DOMAIN cache_sets[s].lines :
                   cache_sets[s].lines[i].valid =>
                       cache_sets'[s].lines[i] = cache_sets[s].lines[i]]_vars

\* a set with a valid line that has been hit took a further tag into a free line
C2_Witness ==
    /\ last.outcome = "miss"
    /\ InsertsInto(last.set) >= 2
    /\ InsertsInto(last.set) <= cache.associativity
    /\ CountOf(outcomes, "hit") >= 1

\* C3: a hit on tag T in set S happens only if the current call inserted T
\* into some line of S and has not inserted into that line of S since.
C3_HitImpliesResidentInsert ==
    last.outcome = "hit" =>
        \E k \in 1..Len(inserts) :
            /\ inserts[k].set = last.set
            /\ inserts[k].tag = last.tag
            /\ \A m \in (k + 1)..Len(inserts) :
                  ~(inserts[m].set = last.set /\ inserts[m].line = inserts[k].line)

\* a hit after some line of the same set has been overwritten
C3_Witness ==
    /\ last.outcome = "hit"
    /\ \E k, m \in 1..Len(inserts) :
          /\ k < m
          /\ inserts[k].set = last.set
          /\ inserts[m].set = last.set
          /\ inserts[k].line = inserts[m].line

\* C4: for a valid geometry every access to an address of the 32-bit range
\* returns hit or miss, and with a single set it goes to set 0.
C4_AccessNeverRaises ==
    (last.outcome # "none" /\ ValidGeometry(args) /\ InRange(last.address))
    => /\ last.outcome \in {"hit", "miss"}
       /\ cache.num_sets = 1 => last.set = 0

\* C5: no Cache is ever constructed from an invalid geometry.
C5_InvalidGeometryRejected ==
    ~ValidGeometry(args) => ~cache.constructed

\* C6: an access whose address is negative or wider than 32 bits ends in an
\* error and leaves the sets and the counters as they were.
C6_OutOfRangeRejected ==
    [][(AccessStep /\ ~InRange(last'.address))
       => /\ last'.outcome \notin {"hit", "miss"}
          /\ cache_sets' = cache_sets
          /\ hits' = hits
          /\ misses' = misses]_vars

\* C7: for a valid geometry and an address of the 32-bit range the tag and
\* the set number used by the access are address >> (index_bits +
\* offset_bits) and (address >> offset_bits) & ((1 << index_bits) - 1).
C7_DecodeMatchesShiftAndMask ==
    (last.outcome # "none" /\ ValidGeometry(args) /\ InRange(last.address))
    => /\ last.tag = BitsValue(ShiftRight(last.address.mag,
                         cache.index_length + cache.byte_offset_length))
       /\ last.set = BitsValue(LowBits(
                         ShiftRight(last.address.mag, cache.byte_offset_length),
                         cache.index_length))

\* C8: for a valid geometry and a file of addresses of the 32-bit range, the
\* call returns, with hits the number of accesses that hit, misses the
\* number that missed, and hits + misses the number of lines of the file.
C8_CountsAddUp ==
    (pc \in {"returned", "raised"} /\ ValidGeometry(args)
       /\ \A i \in 1..Len(trace) : InRange(trace[i]))
    => /\ pc = "returned"
       /\ ret[run].hits = CountOf(ret[run].outcomes, "hit")
       /\ ret[run].misses = CountOf(ret[run].outcomes, "miss")
       /\ ret[run].hits + ret[run].misses = Len(trace)

\* C9: the second call on the same file and geometry repeats the first:
\* the same outcome for every access, and the same result at the end.
C9_SecondCallRepeatsFirst ==
    run = 2 =>
        /\ Len(outcomes) <= Len(ret[1].outcomes)
        /\ outcomes = SubSeq(ret[1].outcomes, 1, Len(outcomes))
        /\ pc \in {"returned", "raised"} => ret[2] = ret[1]

\* the second call has returned after hits and more misses than the set has lines
C9_Witness ==
    /\ run = 2
    /\ pc = "returned"
    /\ ret[2].hits >= 1
    /\ ret[2].misses >= 3

\* C10: for a valid geometry and an address of the 32-bit range, the first
\* access to a new Cache is a miss.
C10_FirstAccessMisses ==
    (pos = 1 /\ last.outcome # "none" /\ ValidGeometry(args)
       /\ InRange(last.address))
    => last.outcome = "miss"

\* C11: in every constructed Cache the three widths are non-negative, sum to
\* 32, and are the exact base-2 logarithms of the block size and of the
\* number of sets.
C11_WidthsExact ==
    cache.constructed =>
        /\ cache.tag_length + cache.index_length + cache.byte_offset_length = W
        /\ cache.tag_length >= 0
        /\ cache.index_length >= 0
        /\ cache.byte_offset_length >= 0
        /\ 2^cache.byte_offset_length = cache.block_size
        /\ 2^cache.index_length = cache.num_sets

\* C12: a Cache constructed from a valid geometry has num_sets *
\* associativity * block_size equal to the capacity in bytes, and owns
\* num_sets sets of associativity lines each.
C12_SetCardinality ==
    (cache.constructed /\ ValidGeometry(args)) =>
        /\ cache.cache_size = args[1] * 1024
        /\ cache.num_sets * args[3] * args[2] = args[1] * 1024
        /\ DOMAIN cache_sets = 0..(cache.num_sets - 1)
        /\ \A s \in DOMAIN cache_sets :
              /\ DOMAIN cache_sets[s].lines = 0..(args[3] - 1)
              /\ DOMAIN cache_sets[s].lru_counter = 0..(args[3] - 1)

\* a valid geometry of several sets of several lines is in use
C12_Witness ==
    /\ cache.constructed
    /\ ValidGeometry(args)
    /\ cache.num_sets >= 2
    /\ cache.associativity >= 2
    /\ pos >= 1

\* C13: deriving the hit rate of a result with zero accesses does not end in
\* a division by zero.
C13_ZeroTotalSpecialCased ==
    (pc = "returned" /\ ValidGeometry(args)
       /\ ret[run].hits + ret[run].misses = 0)
    => report.status # "ZeroDivisionError"

\* the tag and the set number the specification assigns to an address
SpecTag(address) ==
    BitsValue(ShiftRight(address.mag,
                         cache.index_length + cache.byte_offset_length))

SpecSet(address) ==
    BitsValue(LowBits(ShiftRight(address.mag, cache.byte_offset_length),
                      cache.index_length))

\* the positions before k of the file whose address goes to the set of line k
EarlierSameSet(k) ==
    {j \in 1..(k - 1) : SpecSet(trace[j]) = SpecSet(trace[k])}

\* C14: in a direct-mapped cache of a valid geometry, fed addresses of the
\* 32-bit range, an access is a hit if the most recent earlier access to
\* its set had its tag, and a miss otherwise (so A, B, A with A and B of
\* one set and different tags is miss, miss, miss).
C14_DirectMappedHitIffRepeat ==
    (last.outcome # "none" /\ ValidGeometry(args) /\ args[3] = 1
       /\ \A i \in 1..pos : InRange(trace[i]))
    => LET E == EarlierSameSet(pos)
       IN last.outcome =
             IF E # {} /\ SpecTag(trace[MaxOf(E)]) = SpecTag(trace[pos])
             THEN "hit" ELSE "miss"

\* C15: after an access to an address of the 32-bit range in a valid
\* geometry, an access to the same address made next is a hit.
C15_ReaccessHits ==
    (last.outcome # "none" /\ ValidGeometry(args) /\ InRange(last.address))
    => CacheAccess(cache, cache_sets, AddressString(last.address)).outcome
          = "hit"

ValidLines(set) == {i \in DOMAIN set.lines : set.lines[i].valid}

\* the tags a set is probed with: those it holds and some it may not hold
ProbeTags(set) == {set.lines[i].tag : i \in ValidLines(set)} \cup {0, 1, 2}

\* C16: a probe (CacheSet.access) that misses changes nothing in the set; a
\* probe that hits changes only the recency of the hit line, to the maximum
\* recency of the set plus one.
C16_ProbeFrame ==
    \A s \in DOMAIN cache_sets :
        \A t \in ProbeTags(cache_sets[s]) :
            LET set == cache_sets[s]
                probe == SetAccess(set, t)
                H == {i \in ValidLines(set) : set.lines[i].tag = t}
            IN /\ probe.hit = (H # {})
               /\ probe.set.lines = set.lines
               /\ H = {} => probe.set = set
               /\ H # {} =>
                     \E h \in H :
                        /\ probe.set.lru_counter[h] =
                              MaxOf(Range(set.lru_counter)) + 1
                        /\ \A i \in DOMAIN set.lru_counter :
                              i # h => probe.set.lru_counter[i] =
                                          set.lru_counter[i]

\* an access has hit in a set that holds several valid lines
C16_Witness ==
    /\ last.outcome = "hit"
    /\ Cardinality(ValidLines(cache_sets[last.set])) >= 2

\* C17: an access changes no set other than the one its address selects.
C17_OtherSetsUntouched ==
    [][AccessStep =>
          /\ DOMAIN cache_sets' = DOMAIN cache_sets
          /\ \A s \in DOMAIN cache_sets :
                s # last'.set => cache_sets'[s] = cache_sets[s]]_vars

\* an access has gone to one set while another set holds a valid line
C17_Witness ==
    /\ last.outcome \in {"hit", "miss"}
    /\ \E s \in DOMAIN cache_sets :
          s # last.set /\ ValidLines(cache_sets[s]) # {}

\* the earlier accesses of the current call to the set and tag of access k
EarlierSameTag(k) ==
    {j \in 1..(k - 1) : /\ accesses[j].set = accesses[k].set
                        /\ accesses[j].tag = accesses[k].tag}

\* the other tags accessed in the set of access k after access j
TagsBetween(j, k) ==
    {accesses[m].tag : m \in {n \in (j + 1)..(k - 1) :
                                 accesses[n].set = accesses[k].set}}
        \ {accesses[k].tag}

C19_NoDuplicateTags ==
    \A s \in DOMAIN cache_sets :
        \A i, j \in ValidLines(cache_sets[s]) :
            i # j => cache_sets[s].lines[i].tag # cache_sets[s].lines[j].tag

\* a set holds several valid lines after a hit and an eviction
C19_Witness ==
    /\ last.outcome \in {"hit", "miss"}
    /\ Cardinality(ValidLines(cache_sets[last.set])) >= 2
    /\ InsertsInto(last.set) > cache.associativity
    /\ CountOf(outcomes, "hit") >= 1

\* what C20 says of the sets at one moment
RecencyWellFormed(sets) ==
    \A s \in DOMAIN sets :
        /\ \A i \in DOMAIN sets[s].lines :
              IF sets[s].lines[i].valid
              THEN sets[s].lru_counter[i] >= 1
              ELSE sets[s].lru_counter[i] = 0 /\ sets[s].lines[i].tag = None
        /\ \A i, j \in ValidLines(sets[s]) :
              i # j => sets[s].lru_counter[i] # sets[s].lru_counter[j]

\* C20: invalid lines have recency 0 and tag None, valid lines have distinct
\* recencies of at least 1, and an access never lowers a recency nor makes
\* a valid line invalid.
C20_RecencyDiscipline ==
    [][/\ RecencyWellFormed(cache_sets')
       /\ AccessStep =>
             \A s \in DOMAIN cache_sets :
                \A i \in DOMAIN cache_sets[s].lines :
                   /\ cache_sets'[s].lru_counter[i] >= cache_sets[s].lru_counter[i]
                   /\ cache_sets[s].lines[i].valid => cache_sets'[s].lines[i].valid]_vars

\* a set holds an invalid line next to valid lines of which one has been hit
C20_Witness ==
    /\ last.outcome = "miss"
    /\ CountOf(outcomes, "hit") >= 1
    /\ Cardinality(ValidLines(cache_sets[last.set])) >= 2
    /\ ~AllValid(cache_sets[last.set])

====
